---------------------------- MODULE Spec2Model ----------------------------
(***************************************************************************)
(* cassette: the scoped interception toggle (cassette/unpatched.py) and    *)
(* the cassette codecs (cassette/utils.py).                                *)
(*                                                                         *)
(* Python values are records [t |-> type name, v |-> payload]:             *)
(*   str      v is the sequence of its bytes (0..255)                      *)
(*   unicode  v is the sequence of its code points                         *)
(*   list     v is the sequence of its items                               *)
(*   dict     v is the sequence of its <<key, value>> entries, in the      *)
(*            dict's iteration order, keys pairwise different              *)
(*   int, bool, NoneType   v is the value                                  *)
(* A call's outcome is [raised |-> exception name or "", value |-> ...].   *)
(***************************************************************************)
EXTENDS Integers, Sequences, FiniteSets, TLC

VARIABLES
    interception,   \* InterceptionState: what cassette.patcher last did to httplib
    stack,          \* the live unpatched_httplib_context scopes, innermost last
    exc,            \* the exception propagating in the caller, "" when none
    last,           \* the scope that exited most recently
    entered,        \* how many scopes have been entered so far
    data,           \* the structure the caller holds
    call            \* the most recent call into cassette.utils and its outcome

vars == <<interception, stack, exc, last, entered, data, call>>

\* What a call into cassette.utils could leave changed behind it.
globals == <<interception, stack, exc, last, entered, data>>

-----------------------------------------------------------------------------
(* Bounds of the model.                                                    *)

MaxDepth == 2

MaxScopes == 3

MaxBodySteps == 1

Libraries == {"lib_a", "lib_b"}

-----------------------------------------------------------------------------
(* cassette.patcher: the two collaborators the toggle calls.               *)

unpatch == "Unpatched"

patch(cassette_library) == "Patched"

NoCall == [op |-> "none"]

NoData == [t |-> "NoneType", v |-> "None"]

NoScope == [cassette_library |-> "", entry |-> "", how |-> "none",
            after |-> "", trace |-> <<>>]

Top == stack[Len(stack)]

InBody == Len(stack) > 0 /\ exc = ""

\* Some scope entered inside this body, at any depth, has exited normally.
PatchedInside(trace) ==
    \E i \in 1..Len(trace) :
        trace[i].e = "nested" /\ trace[i].arg \in {"normal", "raised, patched inside"}

\* How a scope left by an exception looks from the enclosing body.
RaisedOut(trace) ==
    IF PatchedInside(trace) THEN "raised, patched inside" ELSE "raised"

\* What the enclosing scope's body observes when a scope nested in it exits.
NoteNested(frames, how) ==
    IF Len(frames) = 0 THEN frames
    ELSE [frames EXCEPT ![Len(frames)].trace =
              Append(@, [e |-> "nested", arg |-> how])]

-----------------------------------------------------------------------------
\* Enter with the two collaborators swapped: patch on entry.
EnterPatching ==
    /\ exc = ""
    /\ Len(stack) < MaxDepth
    /\ entered < MaxScopes
    /\ \E cassette_library \in Libraries :
         /\ stack' = Append(stack,
                      [cassette_library |-> cassette_library,
                       entry |-> interception,
                       trace |-> <<[e |-> "patch", arg |-> cassette_library]>>])
         /\ interception' = patch(cassette_library)
    /\ entered' = entered + 1
    /\ UNCHANGED <<exc, last, data, call>>

(* unpatched_httplib_context: __enter__ runs the generator up to its       *)
(* yield (line 13, then suspended at line 14).                             *)
Enter ==
    /\ exc = ""
    /\ Len(stack) < MaxDepth
    /\ entered < MaxScopes
    /\ \E cassette_library \in Libraries :
         stack' = Append(stack,
                    [cassette_library |-> cassette_library,
                     entry |-> interception,
                     trace |-> <<[e |-> "unpatch", arg |-> ""]>>])
    /\ interception' = unpatch
    /\ entered' = entered + 1
    /\ UNCHANGED <<exc, last, data, call>>

\* One step of the caller's body inside the innermost scope: a request that
\* goes to the network iff httplib is unpatched at that moment.
BodyStep ==
    /\ InBody
    /\ Cardinality({i \in 1..Len(Top.trace) : Top.trace[i].e = "body"}) < MaxBodySteps
    /\ stack' = [stack EXCEPT ![Len(stack)].trace =
                    Append(@, [e |-> "body", arg |-> interception])]
    /\ UNCHANGED <<interception, exc, last, entered, data, call>>

\* The body raises.
BodyRaise ==
    /\ InBody
    /\ exc' = "Error"
    /\ UNCHANGED <<interception, stack, last, entered, data, call>>

\* ExitNormal putting back the state found on entry instead of patching.
ExitNormalRestoring ==
    /\ InBody
    /\ interception' = Top.entry
    /\ last' = [cassette_library |-> Top.cassette_library,
                entry |-> Top.entry,
                how |-> "normal",
                after |-> interception',
                trace |-> Append(Top.trace,
                            [e |-> "patch", arg |-> Top.cassette_library])]
    /\ stack' = NoteNested(SubSeq(stack, 1, Len(stack) - 1), "normal")
    /\ UNCHANGED <<exc, entered, data, call>>

\* The body ends normally: __exit__(None, None, None) resumes the generator
\* after the yield, line 15 runs, the generator ends.
ExitNormal ==
    /\ InBody
    /\ interception' = patch(Top.cassette_library)
    /\ last' = [cassette_library |-> Top.cassette_library,
                entry |-> Top.entry,
                how |-> "normal",
                after |-> interception',
                trace |-> Append(Top.trace,
                            [e |-> "patch", arg |-> Top.cassette_library])]
    /\ stack' = NoteNested(SubSeq(stack, 1, Len(stack) - 1), "normal")
    /\ UNCHANGED <<exc, entered, data, call>>

\* The body raised: __exit__(type, value, tb) throws the exception into the
\* generator at its yield (line 14). Nothing there catches it, so line 15
\* never runs and the exception leaves the with statement.
ExitRaise ==
    /\ Len(stack) > 0
    /\ exc # ""
    /\ last' = [cassette_library |-> Top.cassette_library,
                entry |-> Top.entry,
                how |-> "raised",
                after |-> interception,
                trace |-> Top.trace]
    /\ stack' = NoteNested(SubSeq(stack, 1, Len(stack) - 1), RaisedOut(Top.trace))
    /\ UNCHANGED <<interception, exc, entered, data, call>>

\* A try/except around a with statement catches what left it: in the body
\* of the enclosing scope, or in the caller outside every scope.
Catch ==
    /\ exc # ""
    /\ exc' = ""
    /\ UNCHANGED <<interception, stack, last, entered, data, call>>

InitToggle ==
    /\ interception \in {"Patched", "Unpatched"}
    /\ stack = <<>>
    /\ exc = ""
    /\ last = NoScope
    /\ entered = 0
    /\ data = NoData
    /\ call = NoCall

NextToggle ==
    \/ Enter
    \/ BodyStep
    \/ BodyRaise
    \/ ExitNormal
    \/ ExitRaise
    \/ Catch

Spec == InitToggle /\ [][NextToggle]_vars

-----------------------------------------------------------------------------
(* Byte strings. A Python 2 str is a sequence of bytes; a literal is       *)
(* written as its characters and turned into bytes by Bytes.               *)

Ascii == <<" ", "!", "\"", "#", "$", "%", "&", "'", "(", ")", "*", "+", ",",
           "-", ".", "/", "0", "1", "2", "3", "4", "5", "6", "7", "8", "9",
           ":", ";", "<", "=", ">", "?", "@", "A", "B", "C", "D", "E", "F",
           "G", "H", "I", "J", "K", "L", "M", "N", "O", "P", "Q", "R", "S",
           "T", "U", "V", "W", "X", "Y", "Z", "[", "\\", "]", "^", "_", "grave",
           "a", "b", "c", "d", "e", "f", "g", "h", "i", "j", "k", "l", "m",
           "n", "o", "p", "q", "r", "s", "t", "u", "v", "w", "x", "y", "z",
           "{", "|", "}", "~">>

Ord(c) == 31 + CHOOSE i \in 1..Len(Ascii) : Ascii[i] = c

Bytes(chars) == [i \in 1..Len(chars) |-> Ord(chars[i])]

RECURSIVE Join(_, _)
\* sep.join(parts)
Join(parts, sep) ==
    IF Len(parts) = 0 THEN <<>>
    ELSE IF Len(parts) = 1 THEN parts[1]
    ELSE parts[1] \o sep \o Join(Tail(parts), sep)

\* str.lower() in the C locale: only A-Z change.
lower(s) == [i \in 1..Len(s) |-> IF s[i] >= Ord("A") /\ s[i] <= Ord("Z")
                                 THEN s[i] + 32 ELSE s[i]]

PyStr(bytes) == [t |-> "str", v |-> bytes]

PyUnicode(points) == [t |-> "unicode", v |-> points]

PyList(items) == [t |-> "list", v |-> items]

PyDict(entries) == [t |-> "dict", v |-> entries]

PyInt(n) == [t |-> "int", v |-> n]

PyBool(b) == [t |-> "bool", v |-> b]

None == [t |-> "NoneType", v |-> "None"]

Returns(value) == [raised |-> "", value |-> value]

Raises(exception) == [raised |-> exception, value |-> None]

Range(seq) == {seq[i] : i \in 1..Len(seq)}

-----------------------------------------------------------------------------
(* Python 2 equality of the values above.                                  *)

IsAscii(s) == \A i \in 1..Len(s) : s[i] < 128

\* str == unicode decodes the str as ASCII; when that fails the two are
\* unequal (UnicodeWarning).
TextEq(a, b) ==
    IF a.t = b.t THEN a.v = b.v
    ELSE a.v = b.v /\ IsAscii(a.v) /\ IsAscii(b.v)

IsText(x) == x.t \in {"str", "unicode"}

RECURSIVE PyEq(_, _)
PyEq(a, b) ==
    IF IsText(a) /\ IsText(b) THEN TextEq(a, b)
    ELSE IF a.t = "list" /\ b.t = "list" THEN
        /\ Len(a.v) = Len(b.v)
        /\ \A i \in 1..Len(a.v) : PyEq(a.v[i], b.v[i])
    ELSE IF a.t = "dict" /\ b.t = "dict" THEN
        /\ Len(a.v) = Len(b.v)
        /\ \A i \in 1..Len(a.v) : \E j \in 1..Len(b.v) :
              /\ PyEq(a.v[i][1], b.v[j][1])
              /\ PyEq(a.v[i][2], b.v[j][2])
    ELSE a.t = b.t /\ a.v = b.v

\* dict(pairs): a later pair with an equal key replaces the value.
RECURSIVE DictFromPairs(_, _)
DictFromPairs(pairs, acc) ==
    IF Len(pairs) = 0 THEN acc
    ELSE LET p == Head(pairs)
             hit == {i \in 1..Len(acc) : PyEq(acc[i][1], p[1])}
         IN IF hit = {} THEN DictFromPairs(Tail(pairs), Append(acc, p))
            ELSE DictFromPairs(Tail(pairs),
                   [i \in 1..Len(acc) |-> IF i \in hit THEN <<acc[i][1], p[2]>>
                                          ELSE acc[i]])

-----------------------------------------------------------------------------
(* The codecs Python 2.7 applies in unicode(s, encoding) and                *)
(* u.encode(encoding).                                                     *)

TEXT_ENCODING == "ISO-8859-1"

\* SUPPORTED_FORMATS without the empty name.
SupportedFormatsNamed == <<Bytes(<<"j", "s", "o", "n">>), Bytes(<<"y", "a", "m", "l">>)>>

SUPPORTED_FORMATS == <<Bytes(<<"j", "s", "o", "n">>), Bytes(<<"y", "a", "m", "l">>), <<>>>>

IsCont(b) == b >= 128 /\ b < 192

RECURSIVE Utf8Points(_, _)
\* The code points of a UTF-8 byte string, <<-1>> appended where it is not
\* valid (the 2.7 decoder: no overlong forms, surrogates let through).
Utf8Points(s, acc) ==
    IF Len(s) = 0 THEN acc
    ELSE LET b == s[1]
             n == Len(s)
         IN IF b < 128 THEN Utf8Points(Tail(s), Append(acc, b))
            ELSE IF b >= 194 /\ b < 224 THEN
                IF n >= 2 /\ IsCont(s[2])
                THEN Utf8Points(SubSeq(s, 3, n),
                        Append(acc, (b - 192) * 64 + (s[2] - 128)))
                ELSE Append(acc, -1)
            ELSE IF b >= 224 /\ b < 240 THEN
                IF n >= 3 /\ IsCont(s[2]) /\ IsCont(s[3]) /\ ~(b = 224 /\ s[2] < 160)
                THEN Utf8Points(SubSeq(s, 4, n),
                        Append(acc, (b - 224) * 4096 + (s[2] - 128) * 64 + (s[3] - 128)))
                ELSE Append(acc, -1)
            ELSE IF b >= 240 /\ b < 245 THEN
                IF n >= 4 /\ IsCont(s[2]) /\ IsCont(s[3]) /\ IsCont(s[4])
                   /\ ~(b = 240 /\ s[2] < 144) /\ ~(b = 244 /\ s[2] > 143)
                THEN Utf8Points(SubSeq(s, 5, n),
                        Append(acc, (b - 240) * 262144 + (s[2] - 128) * 4096
                                    + (s[3] - 128) * 64 + (s[4] - 128)))
                ELSE Append(acc, -1)
            ELSE Append(acc, -1)

Utf8Bytes(p) ==
    IF p < 128 THEN <<p>>
    ELSE IF p < 2048 THEN <<192 + (p \div 64), 128 + (p % 64)>>
    ELSE IF p < 65536 THEN
        <<224 + (p \div 4096), 128 + ((p \div 64) % 64), 128 + (p % 64)>>
    ELSE <<240 + (p \div 262144), 128 + ((p \div 4096) % 64),
           128 + ((p \div 64) % 64), 128 + (p % 64)>>

RECURSIVE Flatten(_)
Flatten(seqs) == IF Len(seqs) = 0 THEN <<>> ELSE Head(seqs) \o Flatten(Tail(seqs))

\* unicode(bytes, encoding)
Decode(bytes, encoding) ==
    IF encoding = "ISO-8859-1" THEN Returns(PyUnicode(bytes))
    ELSE IF encoding = "ascii" THEN
        IF IsAscii(bytes) THEN Returns(PyUnicode(bytes))
        ELSE Raises("UnicodeDecodeError")
    ELSE \* utf-8
        LET points == Utf8Points(bytes, <<>>)
        IN IF \E i \in 1..Len(points) : points[i] < 0
           THEN Raises("UnicodeDecodeError")
           ELSE Returns(PyUnicode(points))

\* points.encode(encoding)
Encode(points, encoding) ==
    IF encoding = "ISO-8859-1" THEN
        IF \A i \in 1..Len(points) : points[i] < 256
        THEN Returns(PyStr(points)) ELSE Raises("UnicodeEncodeError")
    ELSE IF encoding = "ascii" THEN
        IF IsAscii(points) THEN Returns(PyStr(points))
        ELSE Raises("UnicodeEncodeError")
    ELSE \* utf-8
        Returns(PyStr(Flatten([i \in 1..Len(points) |-> Utf8Bytes(points[i])])))

\* A value in which some step raised: the marker the tree walks carry up.
Raised(exception) == [t |-> "raise", v |-> exception]

\* item.encode(TEXT_ENCODING)
\* What a call returned, or the marker of what it raised.
Fetched(r) == IF r.raised = "" THEN r.value ELSE Raised(r.raised)

Encoded(item) == Fetched(Encode(item.v, TEXT_ENCODING))

RECURSIVE RaisedIn(_)
\* The exceptions raised while a value was built ({} when none was).
RaisedIn(x) ==
    IF x.t = "raise" THEN {x.v}
    ELSE IF x.t = "list" THEN UNION {RaisedIn(x.v[i]) : i \in 1..Len(x.v)}
    ELSE IF x.t = "dict" THEN
        UNION {RaisedIn(x.v[i][1]) \cup RaisedIn(x.v[i][2]) : i \in 1..Len(x.v)}
    ELSE {}

-----------------------------------------------------------------------------
(* json.dumps(data, ensure_ascii=False) of Python 2.7: a str is written    *)
(* byte for byte between quotes, with only the quote, the backslash and    *)
(* the control characters escaped (json.encoder.encode_basestring).        *)

HexDigits == <<"0", "1", "2", "3", "4", "5", "6", "7", "8", "9",
               "a", "b", "c", "d", "e", "f">>

Hex4(n) == <<Ord(HexDigits[((n \div 4096) % 16) + 1]),
             Ord(HexDigits[((n \div 256) % 16) + 1]),
             Ord(HexDigits[((n \div 16) % 16) + 1]),
             Ord(HexDigits[(n % 16) + 1])>>

\* ESCAPE_DCT: the characters with a short escape, as <<byte, letter>>.
ShortEscapes == {<<92, "\\">>, <<34, "\"">>, <<8, "b">>, <<12, "f">>,
                 <<10, "n">>, <<13, "r">>, <<9, "t">>}

EscapeByte(b) ==
    IF \E e \in ShortEscapes : e[1] = b
    THEN <<Ord("\\"), Ord((CHOOSE e \in ShortEscapes : e[1] = b)[2])>>
    ELSE IF b < 32 THEN <<Ord("\\"), Ord("u")>> \o Hex4(b)
    ELSE <<b>>

RECURSIVE EscapeBytes(_)
EscapeBytes(s) ==
    IF Len(s) = 0 THEN <<>> ELSE EscapeByte(Head(s)) \o EscapeBytes(Tail(s))

encode_basestring(s) == <<Ord("\"")>> \o EscapeBytes(s) \o <<Ord("\"")>>

RECURSIVE DecStr(_)
\* str(n) of a non-negative int
DecStr(n) ==
    IF n < 10 THEN <<Ord("0") + n>>
    ELSE DecStr(n \div 10) \o <<Ord("0") + (n % 10)>>

RECURSIVE json_dumps(_)
json_dumps(o) ==
    IF o.t = "str" THEN encode_basestring(o.v)
    ELSE IF o.t = "NoneType" THEN Bytes(<<"n", "u", "l", "l">>)
    ELSE IF o.t = "bool" THEN
        IF o.v THEN Bytes(<<"t", "r", "u", "e">>)
        ELSE Bytes(<<"f", "a", "l", "s", "e">>)
    ELSE IF o.t = "int" THEN
        IF o.v < 0 THEN <<Ord("-")>> \o DecStr(-o.v) ELSE DecStr(o.v)
    ELSE IF o.t = "list" THEN
        <<Ord("[")>>
        \o Join([i \in 1..Len(o.v) |-> json_dumps(o.v[i])], Bytes(<<",", " ">>))
        \o <<Ord("]")>>
    ELSE \* dict: "key": value, in the dict's iteration order
        <<Ord("{")>>
        \o Join([i \in 1..Len(o.v) |->
                    encode_basestring(o.v[i][1].v) \o Bytes(<<":", " ">>)
                    \o json_dumps(o.v[i][2])],
                Bytes(<<",", " ">>))
        \o <<Ord("}")>>

-----------------------------------------------------------------------------
(* JsonEncoder.json_str_decode_list and json_str_decode_dict.              *)

RECURSIVE json_str_decode_list(_), json_str_decode_dict(_)

json_str_decode_list(items) ==
    [i \in 1..Len(items) |->
        LET item == items[i]
        IN IF item.t = "unicode" THEN Encoded(item)
           ELSE IF item.t = "list" THEN PyList(json_str_decode_list(item.v))
           ELSE IF item.t = "dict" THEN PyDict(json_str_decode_dict(item.v))
           ELSE item]

json_str_decode_dict(entries) ==
    DictFromPairs(
        [i \in 1..Len(entries) |->
            LET key == entries[i][1]
                value == entries[i][2]
            IN << IF key.t = "unicode" THEN Encoded(key) ELSE key,
                  IF value.t = "unicode" THEN Encoded(value)
                  ELSE IF value.t = "list" THEN PyList(json_str_decode_list(value.v))
                  ELSE IF value.t = "dict" THEN PyDict(json_str_decode_dict(value.v))
                  ELSE value >>],
        <<>>)

\* The object_hook json.loads is given: called on every decoded object.
ObjectHook(hook, entries) ==
    IF hook = "json_str_decode_dict" THEN json_str_decode_dict(entries)
    ELSE entries

-----------------------------------------------------------------------------
(* json.loads(s, encoding, object_hook=...) of Python 2.7 (json.decoder    *)
(* and json.scanner), for documents of strings, arrays, objects, integers  *)
(* and the three literals. A scan returns [ok, val, end]: end is the       *)
(* index after what was read; a failed scan carries the exception.         *)

Scanned(val, end) == [ok |-> TRUE, val |-> val, end |-> end]

Failed(exception) == [ok |-> FALSE, val |-> exception, end |-> 0]

NoScan == Failed("ValueError")

Whitespace == {32, 9, 10, 13}

RECURSIVE SkipWs(_, _)
SkipWs(s, i) ==
    IF i <= Len(s) /\ s[i] \in Whitespace THEN SkipWs(s, i + 1) ELSE i

HasAt(s, i, word) ==
    /\ i + Len(word) - 1 <= Len(s)
    /\ \A k \in 1..Len(word) : s[i + k - 1] = word[k]

HexVal(b) ==
    IF b >= Ord("0") /\ b <= Ord("9") THEN b - Ord("0")
    ELSE IF b >= Ord("a") /\ b <= Ord("f") THEN b - Ord("a") + 10
    ELSE IF b >= Ord("A") /\ b <= Ord("F") THEN b - Ord("A") + 10
    ELSE -1

\* BACKSLASH: what follows the backslash, and the code point it stands for.
Backslash == {<<"\"", 34>>, <<"\\", 92>>, <<"/", 47>>, <<"b", 8>>, <<"f", 12>>,
              <<"n", 10>>, <<"r", 13>>, <<"t", 9>>}

\* The string read so far with one more decoded chunk, or what decoding raised.
Appended(acc, decoded) ==
    IF decoded.raised = "" THEN Scanned(acc \o decoded.value.v, 0)
    ELSE Failed(decoded.raised)

\* The chunk of raw bytes read so far, decoded and added to the string.
WithChunk(acc, chunk, encoding) == Appended(acc, Decode(chunk, encoding))

StringEnd(w, end) == IF w.ok THEN Scanned(PyUnicode(w.val), end) ELSE w

RECURSIVE scanstring(_, _, _, _, _), AfterBackslash(_, _, _, _)

\* py_scanstring, strict: i is the index after the opening quote. The bytes
\* between escapes are chunks, each decoded with the encoding given.
scanstring(s, i, encoding, chunk, acc) ==
    IF i > Len(s) THEN NoScan                     \* unterminated string
    ELSE IF s[i] = Ord("\"") THEN StringEnd(WithChunk(acc, chunk, encoding), i + 1)
    ELSE IF s[i] = Ord("\\") THEN
        AfterBackslash(s, i, encoding, WithChunk(acc, chunk, encoding))
    ELSE IF s[i] < 32 THEN NoScan                 \* invalid control character
    ELSE scanstring(s, i + 1, encoding, Append(chunk, s[i]), acc)

\* The escape at index i (a backslash), after the string w read before it.
AfterBackslash(s, i, encoding, w) ==
    IF ~w.ok THEN w
    ELSE IF i + 1 > Len(s) THEN NoScan
    ELSE IF s[i + 1] = Ord("u") THEN
        IF i + 5 > Len(s) THEN NoScan
        ELSE IF \E k \in 2..5 : HexVal(s[i + k]) < 0 THEN NoScan
        ELSE scanstring(s, i + 6, encoding, <<>>,
               Append(w.val, HexVal(s[i + 2]) * 4096 + HexVal(s[i + 3]) * 256
                             + HexVal(s[i + 4]) * 16 + HexVal(s[i + 5])))
    ELSE IF \E e \in Backslash : Ord(e[1]) = s[i + 1] THEN
        scanstring(s, i + 2, encoding, <<>>,
            Append(w.val, (CHOOSE e \in Backslash : Ord(e[1]) = s[i + 1])[2]))
    ELSE NoScan                                   \* invalid \escape

RECURSIVE ScanDigits(_, _, _)
ScanDigits(s, i, n) ==
    IF i <= Len(s) /\ s[i] >= Ord("0") /\ s[i] <= Ord("9")
    THEN ScanDigits(s, i + 1, 10 * n + (s[i] - Ord("0")))
    ELSE Scanned(PyInt(n), i)

\* (0|[1-9]\d*)
ScanUnsigned(s, j) ==
    IF j > Len(s) THEN NoScan
    ELSE IF s[j] < Ord("0") \/ s[j] > Ord("9") THEN NoScan
    ELSE IF s[j] = Ord("0") THEN Scanned(PyInt(0), j + 1)
    ELSE ScanDigits(s, j, 0)

Negated(r) == IF r.ok THEN Scanned(PyInt(-r.val.v), r.end) ELSE r

\* NUMBER_RE, its integer part: -?(0|[1-9]\d*)
ScanNumber(s, i) ==
    IF i <= Len(s) /\ s[i] = Ord("-") THEN Negated(ScanUnsigned(s, i + 1))
    ELSE ScanUnsigned(s, i)

\* The object just read after the object_hook has seen it; what the hook
\* raises leaves the decoder there and then.
Hooked(d, end) ==
    IF RaisedIn(d) = {} THEN Scanned(d, end)
    ELSE Failed(CHOOSE e \in RaisedIn(d) : TRUE)

HookedObject(hook, entries, end) == Hooked(PyDict(ObjectHook(hook, entries)), end)

RECURSIVE scan_once(_, _, _, _), JSONObject(_, _, _, _, _), JSONArray(_, _, _, _, _),
          ObjectAt(_, _, _, _), AfterName(_, _, _, _, _), AtColon(_, _, _, _, _, _),
          AfterMember(_, _, _, _, _, _), ObjectNext(_, _, _, _, _),
          ArrayAt(_, _, _, _), AfterItem(_, _, _, _, _), ArrayNext(_, _, _, _, _)

scan_once(s, i, encoding, hook) ==
    IF i > Len(s) THEN NoScan
    ELSE IF s[i] = Ord("\"") THEN scanstring(s, i + 1, encoding, <<>>, <<>>)
    ELSE IF s[i] = Ord("{") THEN ObjectAt(s, SkipWs(s, i + 1), encoding, hook)
    ELSE IF s[i] = Ord("[") THEN ArrayAt(s, SkipWs(s, i + 1), encoding, hook)
    ELSE IF HasAt(s, i, Bytes(<<"n", "u", "l", "l">>)) THEN Scanned(None, i + 4)
    ELSE IF HasAt(s, i, Bytes(<<"t", "r", "u", "e">>)) THEN Scanned(PyBool(TRUE), i + 4)
    ELSE IF HasAt(s, i, Bytes(<<"f", "a", "l", "s", "e">>)) THEN Scanned(PyBool(FALSE), i + 5)
    ELSE ScanNumber(s, i)

\* JSONObject: j is the index of what follows the brace and the whitespace.
ObjectAt(s, j, encoding, hook) ==
    IF j > Len(s) THEN NoScan
    ELSE IF s[j] = Ord("}") THEN HookedObject(hook, <<>>, j + 1)
    ELSE JSONObject(s, j, encoding, hook, <<>>)

\* JSONObject from a property name on: i is the index of its opening quote.
JSONObject(s, i, encoding, hook, pairs) ==
    IF i > Len(s) THEN NoScan
    ELSE IF s[i] # Ord("\"") THEN NoScan           \* expecting property name
    ELSE AfterName(s, scanstring(s, i + 1, encoding, <<>>, <<>>), encoding, hook, pairs)

AfterName(s, k, encoding, hook, pairs) ==
    IF ~k.ok THEN k
    ELSE AtColon(s, SkipWs(s, k.end), k.val, encoding, hook, pairs)

AtColon(s, c, key, encoding, hook, pairs) ==
    IF c > Len(s) THEN NoScan
    ELSE IF s[c] # Ord(":") THEN NoScan            \* expecting : delimiter
    ELSE AfterMember(s, scan_once(s, SkipWs(s, c + 1), encoding, hook),
                     key, encoding, hook, pairs)

AfterMember(s, val, key, encoding, hook, pairs) ==
    IF ~val.ok THEN val
    ELSE ObjectNext(s, SkipWs(s, val.end), encoding, hook,
                    Append(pairs, <<key, val.val>>))

ObjectNext(s, e, encoding, hook, pairs) ==
    IF e > Len(s) THEN NoScan
    ELSE IF s[e] = Ord("}") THEN HookedObject(hook, DictFromPairs(pairs, <<>>), e + 1)
    ELSE IF s[e] # Ord(",") THEN NoScan            \* expecting , delimiter
    ELSE JSONObject(s, SkipWs(s, e + 1), encoding, hook, pairs)

\* JSONArray: j is the index of what follows the bracket and the whitespace.
ArrayAt(s, j, encoding, hook) ==
    IF j > Len(s) THEN NoScan
    ELSE IF s[j] = Ord("]") THEN Scanned(PyList(<<>>), j + 1)
    ELSE JSONArray(s, j, encoding, hook, <<>>)

\* JSONArray from a value on: i is the index where the value starts.
JSONArray(s, i, encoding, hook, values) ==
    AfterItem(s, scan_once(s, i, encoding, hook), encoding, hook, values)

AfterItem(s, val, encoding, hook, values) ==
    IF ~val.ok THEN val
    ELSE ArrayNext(s, SkipWs(s, val.end), encoding, hook, Append(values, val.val))

ArrayNext(s, e, encoding, hook, values) ==
    IF e > Len(s) THEN NoScan
    ELSE IF s[e] = Ord("]") THEN Scanned(PyList(values), e + 1)
    ELSE IF s[e] # Ord(",") THEN NoScan            \* expecting , delimiter
    ELSE JSONArray(s, SkipWs(s, e + 1), encoding, hook, values)

\* Decoded as raw_decode would: what follows the value is not looked at.
DecodedIgnoringRest(s, r) ==
    IF ~r.ok THEN Raises(r.val) ELSE Returns(r.val)

\* JSONDecoder.decode: one value, with nothing but whitespace around it.
Decoded(s, r) ==
    IF ~r.ok THEN Raises(r.val)                    \* no JSON object could be decoded
    ELSE IF SkipWs(s, r.end) # Len(s) + 1 THEN Raises("ValueError")  \* extra data
    ELSE Returns(r.val)

json_loads(s, encoding, hook) == Decoded(s, scan_once(s, SkipWs(s, 1), encoding, hook))

-----------------------------------------------------------------------------
(* The base64 codec of Python 2 (binascii), as yaml uses it for a str that *)
(* is neither ASCII nor UTF-8.                                             *)

B64Alphabet == <<"A", "B", "C", "D", "E", "F", "G", "H", "I", "J", "K", "L", "M",
                 "N", "O", "P", "Q", "R", "S", "T", "U", "V", "W", "X", "Y", "Z",
                 "a", "b", "c", "d", "e", "f", "g", "h", "i", "j", "k", "l", "m",
                 "n", "o", "p", "q", "r", "s", "t", "u", "v", "w", "x", "y", "z",
                 "0", "1", "2", "3", "4", "5", "6", "7", "8", "9", "+", "/">>

B64Char(n) == Ord(B64Alphabet[n + 1])

B64Val(b) ==
    IF \E i \in 1..64 : Ord(B64Alphabet[i]) = b
    THEN (CHOOSE i \in 1..64 : Ord(B64Alphabet[i]) = b) - 1
    ELSE -1

RECURSIVE B64Lines(_)
B64Lines(s) ==
    IF Len(s) = 0 THEN <<>>
    ELSE IF Len(s) = 1 THEN
        <<B64Char(s[1] \div 4), B64Char((s[1] % 4) * 16), Ord("="), Ord("=")>>
    ELSE IF Len(s) = 2 THEN
        <<B64Char(s[1] \div 4), B64Char((s[1] % 4) * 16 + s[2] \div 16),
          B64Char((s[2] % 16) * 4), Ord("=")>>
    ELSE <<B64Char(s[1] \div 4), B64Char((s[1] % 4) * 16 + s[2] \div 16),
           B64Char((s[2] % 16) * 4 + s[3] \div 64), B64Char(s[3] % 64)>>
         \o B64Lines(SubSeq(s, 4, Len(s)))

\* s.encode('base64'): one line of at most 76 characters, newline-ended.
b64encode(s) == IF Len(s) = 0 THEN <<>> ELSE B64Lines(s) \o <<10>>

RECURSIVE B64Bytes(_)
B64Bytes(q) ==
    IF Len(q) < 2 THEN <<>>
    ELSE IF Len(q) = 2 THEN <<q[1] * 4 + q[2] \div 16>>
    ELSE IF Len(q) = 3 THEN
        <<q[1] * 4 + q[2] \div 16, (q[2] % 16) * 16 + q[3] \div 4>>
    ELSE <<q[1] * 4 + q[2] \div 16, (q[2] % 16) * 16 + q[3] \div 4,
           (q[3] % 4) * 64 + q[4]>>
         \o B64Bytes(SubSeq(q, 5, Len(q)))

\* s.decode('base64'): what is not of the alphabet is skipped.
b64decode(s) ==
    B64Bytes(Flatten([i \in 1..Len(s) |->
                IF B64Val(s[i]) < 0 THEN <<>> ELSE <<B64Val(s[i])>>]))

-----------------------------------------------------------------------------
(* yaml.dump(data) and yaml.load(text) of PyYAML under Python 2, at the    *)
(* level of the node graph a document stands for: a scalar node is a tag   *)
(* and a text, a sequence node its item nodes, a mapping node its          *)
(* <<key node, value node>> pairs. The document is held as that graph.     *)

Scalar(tag, text) == [kind |-> "scalar", tag |-> tag, value |-> text]

\* a < b for two str: byte by byte, a proper prefix first
LessBytes(a, b) ==
    \E k \in 1..Len(b) :
        /\ \A i \in 1..(k - 1) : i <= Len(a) /\ a[i] = b[i]
        /\ (k = Len(a) + 1 \/ (k <= Len(a) /\ a[k] < b[k]))

RECURSIVE SortedEntries(_)
\* mapping.items() followed by mapping.sort(): by key
SortedEntries(entries) ==
    IF Len(entries) = 0 THEN <<>>
    ELSE LET m == CHOOSE i \in 1..Len(entries) :
                    \A j \in 1..Len(entries) :
                        j = i \/ LessBytes(entries[i][1].v, entries[j][1].v)
         IN <<entries[m]>>
            \o SortedEntries([i \in 1..(Len(entries) - 1) |->
                                IF i < m THEN entries[i] ELSE entries[i + 1]])

\* Representer.represent_str
represent_str(bytes) ==
    IF Decode(bytes, "ascii").raised = ""
    THEN Scalar("tag:yaml.org,2002:str", Decode(bytes, "ascii").value.v)
    ELSE IF Decode(bytes, "utf-8").raised = ""
    THEN Scalar("tag:yaml.org,2002:python/str", Decode(bytes, "utf-8").value.v)
    ELSE Scalar("tag:yaml.org,2002:binary", b64encode(bytes))

RECURSIVE represent_data(_)
represent_data(o) ==
    IF o.t = "str" THEN represent_str(o.v)
    ELSE IF o.t = "NoneType" THEN
        Scalar("tag:yaml.org,2002:null", Bytes(<<"n", "u", "l", "l">>))
    ELSE IF o.t = "bool" THEN
        Scalar("tag:yaml.org,2002:bool",
               IF o.v THEN Bytes(<<"t", "r", "u", "e">>)
               ELSE Bytes(<<"f", "a", "l", "s", "e">>))
    ELSE IF o.t = "int" THEN
        Scalar("tag:yaml.org,2002:int",
               IF o.v < 0 THEN <<Ord("-")>> \o DecStr(-o.v) ELSE DecStr(o.v))
    ELSE IF o.t = "list" THEN
        [kind |-> "sequence", tag |-> "tag:yaml.org,2002:seq",
         value |-> [i \in 1..Len(o.v) |-> represent_data(o.v[i])]]
    ELSE
        [kind |-> "mapping", tag |-> "tag:yaml.org,2002:map",
         value |-> LET sorted == SortedEntries(o.v)
                   IN [i \in 1..Len(sorted) |->
                         <<represent_data(sorted[i][1]), represent_data(sorted[i][2])>>]]

RECURSIVE construct_object(_)
construct_object(node) ==
    IF node.kind = "sequence" THEN
        PyList([i \in 1..Len(node.value) |-> construct_object(node.value[i])])
    ELSE IF node.kind = "mapping" THEN
        PyDict(DictFromPairs(
                 [i \in 1..Len(node.value) |->
                     <<construct_object(node.value[i][1]),
                       construct_object(node.value[i][2])>>],
                 <<>>))
    ELSE IF node.tag = "tag:yaml.org,2002:str" THEN       \* construct_yaml_str
        IF Encode(node.value, "ascii").raised = ""
        THEN Encode(node.value, "ascii").value
        ELSE PyUnicode(node.value)
    ELSE IF node.tag = "tag:yaml.org,2002:python/str" THEN \* construct_python_str
        Fetched(Encode(node.value, "utf-8"))
    ELSE IF node.tag = "tag:yaml.org,2002:binary" THEN     \* construct_yaml_binary
        PyStr(b64decode(node.value))
    ELSE IF node.tag = "tag:yaml.org,2002:int" THEN
        ScanNumber(node.value, 1).val
    ELSE IF node.tag = "tag:yaml.org,2002:bool" THEN
        PyBool(node.value = Bytes(<<"t", "r", "u", "e">>))
    ELSE None

YamlDocument(node) == [t |-> "yaml_document", v |-> node]

yaml_dump(o) == YamlDocument(represent_data(o))

Constructed(o) ==
    IF RaisedIn(o) = {} THEN Returns(o)
    ELSE Raises(CHOOSE e \in RaisedIn(o) : TRUE)

yaml_load(document) == Constructed(construct_object(document.v))

-----------------------------------------------------------------------------
(* The classes of cassette/utils.py: what each class body defines, and     *)
(* attribute lookup along the base classes.                                *)

Classes == {"Encoder", "JsonEncoder", "YamlEncoder"}

Base(cls) == IF cls = "Encoder" THEN "object" ELSE "Encoder"

\* Defines with YamlEncoder leaving load to its base class.
DefinesWithoutYamlLoad(cls) ==
    IF cls = "Encoder" THEN
        {"file_ext", "is_supported_format", "get_encoder_from_file_format",
         "get_encoder_from_extension", "dump", "load"}
    ELSE IF cls = "JsonEncoder" THEN
        {"file_ext", "dump", "load", "json_str_decode_list", "json_str_decode_dict"}
    ELSE IF cls = "YamlEncoder" THEN {"file_ext", "dump"}
    ELSE {}

Defines(cls) ==
    IF cls = "Encoder" THEN
        {"file_ext", "is_supported_format", "get_encoder_from_file_format",
         "get_encoder_from_extension", "dump", "load"}
    ELSE IF cls = "JsonEncoder" THEN
        {"file_ext", "dump", "load", "json_str_decode_list", "json_str_decode_dict"}
    ELSE IF cls = "YamlEncoder" THEN {"file_ext", "dump", "load"}
    ELSE {}

RECURSIVE Owner(_, _)
\* The class whose body an attribute of cls comes from.
Owner(cls, attr) ==
    IF attr \in Defines(cls) \/ cls = "object" THEN cls
    ELSE Owner(Base(cls), attr)

file_ext(cls) ==
    LET owner == Owner(cls, "file_ext")
    IN IF owner = "JsonEncoder" THEN Bytes(<<".", "j", "s", "o", "n">>)
       ELSE IF owner = "YamlEncoder" THEN Bytes(<<".", "y", "a", "m", "l">>)
       ELSE Bytes(<<".", "f", "i", "l", "e">>)

is_supported_format(file_format) == file_format \in Range(SUPPORTED_FORMATS)

\* get_encoder_from_file_format matching the name in any casing.
get_encoder_from_file_format_lowered(file_format) ==
    IF lower(file_format) = Bytes(<<"j", "s", "o", "n">>) THEN "JsonEncoder"
    ELSE IF lower(file_format) = Bytes(<<"y", "a", "m", "l">>) THEN "YamlEncoder"
    ELSE "YamlEncoder"

get_encoder_from_file_format(file_format) ==
    IF file_format = Bytes(<<"j", "s", "o", "n">>) THEN "JsonEncoder"
    ELSE IF file_format = Bytes(<<"y", "a", "m", "l">>) THEN "YamlEncoder"
    ELSE "YamlEncoder"

\* get_encoder_from_extension without the lower() calls.
get_encoder_from_extension_exact(extension) ==
    IF extension = file_ext("JsonEncoder") THEN "JsonEncoder"
    ELSE IF extension = file_ext("YamlEncoder") THEN "YamlEncoder"
    ELSE "YamlEncoder"

get_encoder_from_extension(extension) ==
    IF lower(extension) = file_ext("JsonEncoder") THEN "JsonEncoder"
    ELSE IF lower(extension) = file_ext("YamlEncoder") THEN "YamlEncoder"
    ELSE "YamlEncoder"

JsonEncoder_dump(o) == Returns(PyStr(json_dumps(o)))

JsonEncoder_load(encoded_str) ==
    json_loads(encoded_str.v, TEXT_ENCODING, "json_str_decode_dict")

YamlEncoder_dump(o) == Returns(yaml_dump(o))

YamlEncoder_load(encoded_str) == yaml_load(encoded_str)

\* encoder.dump(data) on an instance of cls
dump(cls, o) ==
    LET owner == Owner(cls, "dump")
    IN IF owner = "JsonEncoder" THEN JsonEncoder_dump(o)
       ELSE IF owner = "YamlEncoder" THEN YamlEncoder_dump(o)
       ELSE Raises("NotImplementedError")

\* encoder.load(encoded_str) on an instance of cls
load(cls, encoded_str) ==
    LET owner == Owner(cls, "load")
    IN IF owner = "JsonEncoder" THEN JsonEncoder_load(encoded_str)
       ELSE IF owner = "YamlEncoder" THEN YamlEncoder_load(encoded_str)
       ELSE Raises("NotImplementedError")

-----------------------------------------------------------------------------
(* The inputs the callers draw from.                                       *)

MaxSize == 4

MaxNameLen == 3

\* Bytes a recorded string is made of: a control character, the quote, a
\* letter, and two bytes above 127 that together are the UTF-8 form of one
\* character.
DataBytes == {1, 34, 97, 169, 195}

NameBytes == {Ord("."), Ord("j"), Ord("J")}

StrsUpTo(alphabet, n) == UNION {[1..k -> alphabet] : k \in 0..n}

RECURSIVE Size(_), SizeOfAll(_)
\* What a structure counts for in MaxSize: one per node and one per byte.
Size(x) ==
    IF x.t = "list" THEN 1 + SizeOfAll(x.v)
    ELSE IF x.t = "dict" THEN
        1 + SizeOfAll([i \in 1..Len(x.v) |-> x.v[i][1]])
          + SizeOfAll([i \in 1..Len(x.v) |-> x.v[i][2]]) - Len(x.v)
    ELSE 1 + Len(x.v)

SizeOfAll(xs) == IF Len(xs) = 0 THEN 0 ELSE Size(Head(xs)) + SizeOfAll(Tail(xs))

RECURSIVE Trees(_), Items(_), Entries(_)

\* The structures of strings, lists and dicts of size at most n.
Trees(n) ==
    IF n <= 0 THEN {}
    ELSE {PyStr(b) : b \in StrsUpTo(DataBytes, n - 1)}
         \cup {PyList(items) : items \in Items(n - 1)}
         \cup {PyDict(entries) : entries \in Entries(n - 1)}

Items(n) ==
    {<<>>} \cup UNION {{<<x>> \o rest : rest \in Items(n - Size(x))} : x \in Trees(n)}

Entries(n) ==
    {<<>>} \cup
    UNION {UNION {{<<<<PyStr(k), x>>>> \o rest :
                     rest \in {r \in Entries(n - Len(k) - Size(x)) :
                                 \A i \in 1..Len(r) : r[i][1].v # k}} :
                  x \in Trees(n - Len(k))} :
           k \in StrsUpTo(DataBytes, n - 1)}

\* {"status": 200, "body": "caf\xe9"}
Interaction ==
    PyDict(<< <<PyStr(Bytes(<<"s", "t", "a", "t", "u", "s">>)), PyInt(200)>>,
              <<PyStr(Bytes(<<"b", "o", "d", "y">>)), PyStr(Bytes(<<"c", "a", "f">>) \o <<233>>)>> >>)

Structures == Trees(MaxSize) \cup {Interaction}

NotJson == Bytes(<<"{", "n", "o", "t", " ", "j", "s", "o", "n">>)

\* A document cut short, or with something after its end.
MalformedOf(document) ==
    {SubSeq(document, 1, k) : k \in 0..(Len(document) - 1)}
    \cup {document \o <<b>> : b \in {Ord("x"), Ord("]"), Ord("}"), Ord("\"")}}

\* Well-formed documents json.dumps does not write: escapes above U+00FF,
\* whitespace, a repeated name, scalars at every place.
Documents ==
    {Bytes(<<"[", "\"", "\\", "u", "2", "0", "a", "c", "\"", "]">>),
     Bytes(<<"{", "\"", "k", "\"", ":", "\"", "\\", "u", "2", "0", "A", "C", "\"", "}">>),
     Bytes(<<" ", "[", " ", "\"", "a", "\"", " ", ",", " ", "{", "\"", "b", "\"", " ",
             ":", " ", "n", "u", "l", "l", " ", "}", " ", "]", " ">>),
     Bytes(<<"{", "\"", "a", "\"", ":", "1", ",", "\"", "a", "\"", ":", "\"", "x", "\"", "}">>),
     Bytes(<<"\"", "\\", "/", "\\", "n", "\"">>),
     Bytes(<<"[", "t", "r", "u", "e", ",", "-", "1", "2", ",", "[", "\"", "y", "\"", "]", "]">>)}

\* Every upper/lower casing of a word.
Casings(word) ==
    {[i \in 1..Len(word) |-> IF up[i] /\ word[i] >= Ord("a") /\ word[i] <= Ord("z")
                             THEN word[i] - 32 ELSE word[i]] :
        up \in [1..Len(word) -> BOOLEAN]}

Names ==
    StrsUpTo(NameBytes, MaxNameLen)
    \cup Casings(Bytes(<<".", "j", "s", "o", "n">>))
    \cup Casings(Bytes(<<".", "y", "a", "m", "l">>))
    \cup Casings(Bytes(<<"j", "s", "o", "n">>))
    \cup Casings(Bytes(<<"y", "a", "m", "l">>))
    \cup {Bytes(<<".", "t", "x", "t">>), Bytes(<<".", "f", "i", "l", "e">>),
          Bytes(<<"x", "m", "l">>), Bytes(<<".", "j", "s", "o", "n", "x">>),
          Bytes(<<"j", "s", "o", "n", " ">>), Bytes(<<".", "j", "s", "o", "n">>) \o <<233>>}

\* The encoders a caller can hold: the abstract one, and what the two
\* resolvers hand out.
Encoders ==
    {"Encoder"}
    \cup {get_encoder_from_file_format(n) : n \in Names}
    \cup {get_encoder_from_extension(n) : n \in Names}

Called(op, cls, arg, of, out) ==
    [op |-> op, cls |-> cls, arg |-> arg, of |-> of, out |-> out,
     before |-> globals]

-----------------------------------------------------------------------------
(* The calls into cassette.utils. The caller is single-threaded: it makes   *)
(* a call when no result is pending, and takes the result before the next. *)

\* The caller has used the result of the call.
Return ==
    /\ call # NoCall
    /\ call' = NoCall
    /\ UNCHANGED <<interception, stack, exc, last, entered, data>>

CallIsSupportedFormat ==
    /\ call = NoCall
    /\ \E file_format \in Names :
         call' = Called("is_supported_format", "Encoder", file_format, "name",
                        Returns(PyBool(is_supported_format(file_format))))
    /\ UNCHANGED <<interception, stack, exc, last, entered, data>>

CallGetEncoderFromFileFormat ==
    /\ call = NoCall
    /\ \E file_format \in Names :
         call' = Called("get_encoder_from_file_format", "Encoder", file_format, "name",
                        Returns(get_encoder_from_file_format(file_format)))
    /\ UNCHANGED <<interception, stack, exc, last, entered, data>>

CallGetEncoderFromExtension ==
    /\ call = NoCall
    /\ \E extension \in Names :
         call' = Called("get_encoder_from_extension", "Encoder", extension, "name",
                        Returns(get_encoder_from_extension(extension)))
    /\ UNCHANGED <<interception, stack, exc, last, entered, data>>

\* encoder.dump(data)
CallDump ==
    /\ call = NoCall
    /\ \E cls \in Encoders :
         call' = Called("dump", cls, data, "data", dump(cls, data))
    /\ UNCHANGED <<interception, stack, exc, last, entered, data>>

\* encoder.load(document) of the document a dump has just written, by an
\* encoder of the same class or by the abstract one.
CallLoadDumped ==
    /\ call.op = "dump"
    /\ call.out.raised = ""
    /\ \E cls \in {call.cls, "Encoder"} :
         call' = Called("load", cls, call.out.value, "dump", load(cls, call.out.value))
    /\ UNCHANGED <<interception, stack, exc, last, entered, data>>

\* JsonEncoder().load(text) of a text that is not a JSON document.
CallLoadMalformed ==
    /\ call = NoCall
    /\ \E cls \in {"JsonEncoder", "Encoder"} :
       \E text \in MalformedOf(json_dumps(data)) \cup {NotJson} :
         call' = Called("load", cls, PyStr(text), "malformed", load(cls, PyStr(text)))
    /\ UNCHANGED <<interception, stack, exc, last, entered, data>>

\* JsonEncoder().load(text) of a JSON document written by something else.
CallLoadDocument ==
    /\ call = NoCall
    /\ \E text \in Documents :
         call' = Called("load", "JsonEncoder", PyStr(text), "document",
                        load("JsonEncoder", PyStr(text)))
    /\ UNCHANGED <<interception, stack, exc, last, entered, data>>

InitResolver ==
    /\ interception \in {"Patched", "Unpatched"}
    /\ stack = <<>>
    /\ exc = ""
    /\ last = NoScope
    /\ entered = 0
    /\ data = NoData
    /\ call = NoCall

NextResolver ==
    \/ CallIsSupportedFormat
    \/ CallGetEncoderFromFileFormat
    \/ CallGetEncoderFromExtension
    \/ Return

ResolverSpec == InitResolver /\ [][NextResolver]_vars

InitCodec ==
    /\ interception \in {"Patched", "Unpatched"}
    /\ stack = <<>>
    /\ exc = ""
    /\ last = NoScope
    /\ entered = 0
    /\ data \in Structures
    /\ call = NoCall

NextCodec ==
    \/ CallDump
    \/ CallLoadDumped
    \/ CallLoadMalformed
    \/ CallLoadDocument
    \/ Return

CodecSpec == InitCodec /\ [][NextCodec]_vars

-----------------------------------------------------------------------------
(* The claims.                                                             *)

Left(scope) == scope.how \in {"normal", "raised"}

BodyEvents(trace) == {i \in 1..Len(trace) : trace[i].e = "body"}

CollaboratorEvents(trace) == {i \in 1..Len(trace) : trace[i].e \in {"patch", "unpatch"}}

\* The scope called unpatch() first, patch(its own cassette_library) last,
\* and neither anywhere else.
OwnCallsInOrder(scope) ==
    /\ Len(scope.trace) >= 2
    /\ scope.trace[1] = [e |-> "unpatch", arg |-> ""]
    /\ scope.trace[Len(scope.trace)] = [e |-> "patch", arg |-> scope.cassette_library]
    /\ CollaboratorEvents(scope.trace) = {1, Len(scope.trace)}

\* The body steps made before any scope entered inside the body, at any
\* depth, exited normally.
BeforeNestedNormal(trace) ==
    {i \in BodyEvents(trace) : ~PatchedInside(SubSeq(trace, 1, i - 1))}

\* C1: a scope entered while Patched has left Patched behind once it is
\* left and the error, if any, is caught, however the body ended.
C1_PatchedAgainOnEveryExit ==
    (Left(last) /\ last.entry = "Patched" /\ exc = "") => last.after = "Patched"

C10_ExitSetsPatched ==
    /\ last.how = "normal" => last.after = "Patched"
    /\ \A d \in 1..Len(stack) : \A i \in 1..(Len(stack[d].trace) - 1) :
          (/\ stack[d].trace[i] = [e |-> "nested", arg |-> "normal"]
           /\ stack[d].trace[i + 1].e = "body")
          => stack[d].trace[i + 1].arg = "Patched"
    /\ (InBody /\ Top.trace[Len(Top.trace)] = [e |-> "nested", arg |-> "normal"])
          => interception = "Patched"

C10_Witness ==
    /\ last.how = "normal"
    /\ last.entry = "Unpatched"
    /\ InBody
    /\ \E i \in 1..(Len(Top.trace) - 1) :
          /\ Top.trace[i] = [e |-> "nested", arg |-> "normal"]
          /\ Top.trace[i + 1] = [e |-> "body", arg |-> "Patched"]

Json == Bytes(<<"j", "s", "o", "n">>)

Yaml == Bytes(<<"y", "a", "m", "l">>)

\* C2: get_encoder_from_file_format never raises, returns a JsonEncoder for
\* exactly the name "json" and a YamlEncoder for every other name.
C2_FormatResolution ==
    call.op = "get_encoder_from_file_format" =>
        /\ call.out.raised = ""
        /\ call.arg = Json => call.out.value = "JsonEncoder"
        /\ call.arg # Json => call.out.value = "YamlEncoder"

C2_Witness ==
    /\ call.op = "get_encoder_from_file_format"
    /\ call.arg = Bytes(<<"J", "S", "O", "N">>)
    /\ call.out.value = "YamlEncoder"

\* C3: get_encoder_from_extension never raises, returns a JsonEncoder for
\* ".json" in any casing and a YamlEncoder for every other extension.
C3_ExtensionResolution ==
    call.op = "get_encoder_from_extension" =>
        /\ call.out.raised = ""
        /\ call.arg \in Casings(<<Ord(".")>> \o Json) => call.out.value = "JsonEncoder"
        /\ call.arg \notin Casings(<<Ord(".")>> \o Json) => call.out.value = "YamlEncoder"

C3_Witness ==
    /\ call.op = "get_encoder_from_extension"
    /\ call.arg = Bytes(<<".", "J", "s", "O", "N">>)
    /\ call.out.value = "JsonEncoder"

\* C4: is_supported_format is true for exactly "json", "yaml" and "", it
\* changes nothing, and a name it rejects still resolves to a YamlEncoder.
C4_SupportedFormats ==
    call.op = "is_supported_format" =>
        /\ call.out = Returns(PyBool(call.arg \in {Json, Yaml, <<>>}))
        /\ globals = call.before
        /\ call.out.value = PyBool(FALSE) =>
              get_encoder_from_file_format(call.arg) = "YamlEncoder"

C4_Witness ==
    /\ call.op = "is_supported_format"
    /\ call.arg = Bytes(<<"x", "m", "l">>)
    /\ call.out.value = PyBool(FALSE)

Concrete == {"JsonEncoder", "YamlEncoder"}

\* C5: for both encoders and every structure of strings, lists and dicts,
\* load(dump(x)) equals x.
C5_RoundTrip ==
    (call.op = "load" /\ call.of = "dump" /\ call.cls \in Concrete) =>
        /\ call.out.raised = ""
        /\ PyEq(call.out.value, data)

RECURSIVE NoUnicode(_)
\* No unicode object is left anywhere in the value.
NoUnicode(x) ==
    IF x.t = "unicode" THEN FALSE
    ELSE IF x.t = "list" THEN \A i \in 1..Len(x.v) : NoUnicode(x.v[i])
    ELSE IF x.t = "dict" THEN
        \A i \in 1..Len(x.v) : NoUnicode(x.v[i][1]) /\ NoUnicode(x.v[i][2])
    ELSE TRUE

\* C6: JsonEncoder.load of a well-formed JSON document returns a structure
\* in which every string, at every depth and at the top, is a str.
C6_EveryStringNormalized ==
    (call.op = "load" /\ call.cls = "JsonEncoder" /\ call.of \in {"dump", "document"}) =>
        /\ call.out.raised = ""
        /\ NoUnicode(call.out.value)

\* C7: dump and load raise NotImplementedError on the abstract Encoder,
\* whatever they are given, and never on an encoder the resolvers return.
C7_OnlyAbstractUnsupported ==
    /\ Encoders \ {"Encoder"} \subseteq Concrete
    /\ call.op \in {"dump", "load"} =>
          /\ call.cls = "Encoder" => call.out = Raises("NotImplementedError")
          /\ call.cls \in Concrete => call.out.raised # "NotImplementedError"

C7_Witness ==
    /\ call.op = "load"
    /\ call.of = "dump"
    /\ call.cls = "Encoder"
    /\ call.out.raised = "NotImplementedError"

\* C8: JsonEncoder.load of a malformed text raises the decoder's ValueError,
\* returns nothing, and leaves the interception state and the caller's data
\* as they were.
C8_MalformedRaises ==
    (call.op = "load" /\ call.cls = "JsonEncoder" /\ call.of = "malformed") =>
        /\ call.out = Raises("ValueError")
        /\ globals = call.before

C8_Witness ==
    /\ call.op = "load"
    /\ call.cls = "JsonEncoder"
    /\ call.arg = PyStr(NotJson)
    /\ call.out.raised = "ValueError"
    /\ interception = "Unpatched"

=============================================================================
